---- MODULE Spec2Model ----
(***************************************************************************)
(* pycalendar: the TEXT escape codec and the construction of its tables    *)
(* (pycalendar/dtype/text.py), and the Feed with its block scanner         *)
(* Feed.process and Feed.fetch (pycalendar/feed.py).                       *)
(*                                                                         *)
(* A text is a sequence of characters, each character a one-character      *)
(* string.  A document is a text over tokens: the words BEGIN and END, the *)
(* colon, the CRLF separator and the letters of names are each one token.  *)
(***************************************************************************)
EXTENDS Naturals, Sequences, FiniteSets, TLC

VARIABLES
    \* ---- escape codec (text.py) ----
    text0,      \* the text the caller starts from
    arg,        \* argument of the last escape/unescape call
    ret,        \* value returned by the last call (text0 before any call)
    calls,      \* names of the functions called so far, in order
    escapes,    \* the module's escape table, _ESCAPES
    built,      \* what _setup_escapes left: None before it has run
    \* ---- Feed (feed.py) ----
    doc,        \* the document as the list of lines it was written from
    content,    \* Feed.content
    feed,       \* the Feed itself: a set of Entry objects
    pc,         \* position of the caller / of Feed.process
    lines,      \* process: self.content.split('\r\n')
    i,          \* process: index of the next line (enumerate, 0-based)
    entry,      \* process: local variable entry
    stack,      \* process: local variable stack
    raised,     \* the exception that left process, if one did
    emitted,    \* history of the self.add(entry) calls of process, in order
    readback,   \* the entries in the order an iteration over the Feed gave
    url,        \* the document Feed.url serves, as the list of its lines
    api         \* the calls made on the Feed so far, in order

codecVars == <<text0, arg, ret, calls, escapes, built>>
feedVars  == <<doc, content, feed, pc, lines, i, entry, stack, raised,
               emitted, readback, url, api>>
vars      == <<codecVars, feedVars>>

-----------------------------------------------------------------------------
(* Bounds of the model *)

\* longest text handed to the codec
MaxLen == 4
\* longest chain of escape/unescape calls on one text
MaxCalls == 2
\* most lines in a document
MaxLines == 6
\* longest text whose escape is compared with the escape of every other text
MaxOther == 2
\* most spellings listed for one character of an escape table
MaxSpellings == 2
\* most lines in the document the URL of a Feed serves
MaxFetchLines == 4
\* most fetch and process calls made on one Feed
MaxApiCalls == 2

-----------------------------------------------------------------------------
(* Python values *)

None == [py |-> "None"]

\* a string where None may stand instead: str(byte_content, encoding='UTF-8')
str(text) == [str |-> text]

\* the value of raised while no exception has left process
NoException == [exc |-> "None"]

BS == "\\"
NL == "\n"

\* the characters of the texts the codec is run on: the four characters of
\* the escape table, the letters n and N, and one other character
Chars == {BS, NL, ";", ",", "n", "N", "a"}

RECURSIVE Concat(_)
\* ''.join(parts): the parts one after the other
Concat(parts) ==
    IF parts = <<>> THEN <<>> ELSE Head(parts) \o Concat(Tail(parts))

\* text.startswith(prefix)
startswith(text, prefix) ==
    /\ Len(text) >= Len(prefix)
    /\ SubSeq(text, 1, Len(prefix)) = prefix

-----------------------------------------------------------------------------
(* text.py: the escape table.  A dict is the sequence of its items         *)
(* <<key, value>> in insertion order, which is the order of iteration.     *)

_ESCAPES == <<
    <<BS,  << <<BS, BS>> >> >>,
    <<NL,  << <<BS, "n">>, <<BS, "N">> >> >>,
    <<";", << <<BS, ";">> >> >>,
    <<",", << <<BS, ",">> >> >>
    >>

\* dict.keys()
keys(dict) == [k \in 1..Len(dict) |-> dict[k][1]]

\* key in dict
haskey(dict, key) == \E k \in 1..Len(dict) : dict[k][1] = key

\* dict[key], for a key of the dict
getitem(dict, key) ==
    dict[CHOOSE k \in 1..Len(dict) : dict[k][1] = key][2]

\* dict[key] = value: an old key keeps its place, a new one goes last
setitem(dict, key, value) ==
    IF haskey(dict, key)
    THEN [k \in 1..Len(dict) |->
            IF dict[k][1] = key THEN <<key, value>> ELSE dict[k]]
    ELSE Append(dict, <<key, value>>)

\* a slip: the backslash is put into the pattern as it is
_backslash_escape_unquoted(text) == text

_backslash_escape(text) ==
    IF text = <<BS>> THEN <<BS, BS>> ELSE text

\* a slip: only the first spelling of a key is registered for decoding
_setup_values_first(unescapes, key, values) ==
    IF values = <<>> THEN [exc |-> "None", unescapes |-> unescapes]
    ELSE [exc |-> "None",
          unescapes |-> setitem(unescapes, Head(values), key)]

RECURSIVE _setup_values(_, _, _)
\* the inner loop of _setup_escapes over the spellings of one key; the
\* result is [exc, unescapes]
_setup_values(unescapes, key, values) ==
    IF values = <<>> THEN [exc |-> "None", unescapes |-> unescapes]
    ELSE LET value == Head(values) IN
         IF Len(value) # 2
         THEN [exc |-> "NotImplementedError", unescapes |-> unescapes]
         ELSE IF value[1] # BS
         THEN [exc |-> "NotImplementedError", unescapes |-> unescapes]
         ELSE _setup_values(setitem(unescapes, value, key), key, Tail(values))

RECURSIVE _setup_items(_, _)
\* the outer loop of _setup_escapes over the items of the table
_setup_items(unescapes, items) ==
    IF items = <<>> THEN [exc |-> "None", unescapes |-> unescapes]
    ELSE LET r == _setup_values(unescapes, Head(items)[1], Head(items)[2]) IN
         IF r.exc # "None" THEN r
         ELSE _setup_items(r.unescapes, Tail(items))

RECURSIVE join(_, _)
\* sep.join(parts)
join(sep, parts) ==
    IF parts = <<>> THEN <<>>
    ELSE IF Len(parts) = 1 THEN parts[1]
    ELSE parts[1] \o sep \o join(sep, Tail(parts))

(* re.compile, for the patterns _setup_escapes writes: one group holding    *)
(* either alternatives, or quoted characters followed by a group of         *)
(* alternatives.  In a pattern a backslash quotes the character after it.   *)

RECURSIVE unquote(_)
\* the characters a pattern without | and groups matches
unquote(pattern) ==
    IF pattern = <<>> THEN <<>>
    ELSE IF pattern[1] = BS /\ Len(pattern) >= 2
    THEN <<pattern[2]>> \o unquote(SubSeq(pattern, 3, Len(pattern)))
    ELSE <<pattern[1]>> \o unquote(Tail(pattern))

RECURSIVE split_alts(_, _)
\* the alternatives of a pattern: its parts between the | that are not quoted
split_alts(pattern, cur) ==
    IF pattern = <<>> THEN <<cur>>
    ELSE IF pattern[1] = BS /\ Len(pattern) >= 2
    THEN split_alts(SubSeq(pattern, 3, Len(pattern)),
                    cur \o <<BS, pattern[2]>>)
    ELSE IF pattern[1] = "|"
    THEN <<cur>> \o split_alts(Tail(pattern), <<>>)
    ELSE split_alts(Tail(pattern), Append(cur, pattern[1]))

RECURSIVE group_start(_, _)
\* the place of the first ( that is not quoted, from pos on; 0 if none
group_start(pattern, pos) ==
    IF pos > Len(pattern) THEN 0
    ELSE IF pattern[pos] = BS THEN group_start(pattern, pos + 2)
    ELSE IF pattern[pos] = "(" THEN pos
    ELSE group_start(pattern, pos + 1)

\* the compiled pattern: what must come first, then one of alts
compile(pattern) ==
    LET inner == SubSeq(pattern, 2, Len(pattern) - 1)
        g     == group_start(inner, 1)
        alts  == IF g = 0 THEN split_alts(inner, <<>>)
                 ELSE split_alts(SubSeq(inner, g + 1, Len(inner) - 1), <<>>)
    IN  [prefix |-> IF g = 0 THEN <<>> ELSE unquote(SubSeq(inner, 1, g - 1)),
         alts   |-> [k \in 1..Len(alts) |-> unquote(alts[k])]]

\* _setup_escapes(table) is [exc, _UNESCAPES, _ESCAPE_REGEXP, _UNESCAPE_REGEXP]
_setup_escapes(table) ==
    LET r == _setup_items(<<>>, table) IN
    IF r.exc # "None"
    THEN [exc |-> r.exc, _UNESCAPES |-> r.unescapes,
          _ESCAPE_REGEXP |-> None, _UNESCAPE_REGEXP |-> None]
    ELSE LET escape_regexp ==
                 <<"(">> \o
                 join(<<"|">>, [k \in 1..Len(table) |->
                                  _backslash_escape(<<keys(table)[k]>>)])
                 \o <<")">>
             unescape_regexp ==
                 <<"(", BS, BS, "(">> \o
                 join(<<"|">>, [k \in 1..Len(r.unescapes) |->
                          _backslash_escape(<<keys(r.unescapes)[k][2]>>)])
                 \o <<")", ")">>
         IN  [exc |-> "None",
              _UNESCAPES |-> r.unescapes,
              _ESCAPE_REGEXP |-> compile(escape_regexp),
              _UNESCAPE_REGEXP |-> compile(unescape_regexp)]

_UNESCAPES == _setup_escapes(_ESCAPES)._UNESCAPES
_ESCAPE_REGEXP == _setup_escapes(_ESCAPES)._ESCAPE_REGEXP
_UNESCAPE_REGEXP == _setup_escapes(_ESCAPES)._UNESCAPE_REGEXP

\* the match of regexp at position pos of string (1-based), <<>> if none:
\* the first alternative, in the order written, that fits
match(regexp, string, pos) ==
    LET rest == SubSeq(string, pos, Len(string))
        fits(k) == startswith(rest, regexp.prefix \o regexp.alts[k])
        hits == {k \in 1..Len(regexp.alts) : fits(k)}
    IN  IF hits = {} THEN <<>>
        ELSE LET first == CHOOSE k \in hits : \A h \in hits : k <= h
             IN  regexp.prefix \o regexp.alts[first]

RECURSIVE scan_overlapping(_, _, _)
\* a slip: after a match the scan goes on at the next character, not after
\* the match
scan_overlapping(regexp, string, pos) ==
    IF pos > Len(string) THEN <<>>
    ELSE LET m == match(regexp, string, pos) IN
         IF m # <<>>
         THEN <<[matched |-> TRUE, group1 |-> m]>>
                  \o scan_overlapping(regexp, string, pos + 1)
         ELSE <<[matched |-> FALSE, group1 |-> <<string[pos]>>]>>
                  \o scan_overlapping(regexp, string, pos + 1)

RECURSIVE scan(_, _, _)
\* the left-to-right, non-overlapping scan of regexp.subn over string from
\* pos on: the pieces of the string, each a match or one unmatched character
scan(regexp, string, pos) ==
    IF pos > Len(string) THEN <<>>
    ELSE LET m == match(regexp, string, pos) IN
         IF m # <<>>
         THEN <<[matched |-> TRUE, group1 |-> m]>>
                  \o scan(regexp, string, pos + Len(m))
         ELSE <<[matched |-> FALSE, group1 |-> <<string[pos]>>]>>
                  \o scan(regexp, string, pos + 1)

\* _escape_replacer raises KeyError when the match is no key of _ESCAPES
_escape_replacer_raises(m) == ~ haskey(_ESCAPES, m.group1[1])

\* a slip: the last spelling of the character instead of the first
_escape_replacer_last(m) ==
    LET spellings == getitem(_ESCAPES, m.group1[1])
    IN  spellings[Len(spellings)]

\* a slip: the spelling is written without its backslash
_escape_replacer_bare(m) == Tail(getitem(_ESCAPES, m.group1[1])[1])

_escape_replacer(m) == getitem(_ESCAPES, m.group1[1])[1]

\* a slip: the inner group, the character after the backslash, is looked up
_unescape_replacer_raises_inner(m) == ~ haskey(_UNESCAPES, <<m.group1[2]>>)

\* _unescape_replacer raises KeyError when the match is no key of _UNESCAPES
_unescape_replacer_raises(m) == ~ haskey(_UNESCAPES, m.group1)

\* a slip: the backslash is dropped and the character after it is kept
_unescape_replacer_strip(m) == <<m.group1[2]>>

\* _UNESCAPES[...] is a one-character string; [0] is its first character
_unescape_replacer(m) == <<getitem(_UNESCAPES, m.group1)>>

escape(text) ==
    LET pieces == scan(_ESCAPE_REGEXP, text, 1) IN
    Concat([k \in 1..Len(pieces) |->
               IF pieces[k].matched THEN _escape_replacer(pieces[k])
               ELSE pieces[k].group1])

unescape(text) ==
    LET pieces == scan(_UNESCAPE_REGEXP, text, 1) IN
    Concat([k \in 1..Len(pieces) |->
               IF pieces[k].matched THEN _unescape_replacer(pieces[k])
               ELSE pieces[k].group1])

\* whether escape(text) / unescape(text) leaves by an exception
escape_raises(text) ==
    LET pieces == scan(_ESCAPE_REGEXP, text, 1) IN
    \E k \in 1..Len(pieces) :
        pieces[k].matched /\ _escape_replacer_raises(pieces[k])

unescape_raises(text) ==
    LET pieces == scan(_UNESCAPE_REGEXP, text, 1) IN
    \E k \in 1..Len(pieces) :
        pieces[k].matched /\ _unescape_replacer_raises(pieces[k])

-----------------------------------------------------------------------------
(* The codec run on every text up to MaxLen characters: a caller applies   *)
(* escape and unescape, each call to the value the last one returned.      *)

RECURSIVE TextsUpTo(_)
TextsUpTo(n) ==
    IF n = 0 THEN {<<>>}
    ELSE LET shorter == TextsUpTo(n - 1) IN
         shorter \cup {Append(t, c) : t \in shorter, c \in Chars}

\* the Feed variables as they are while only the codec runs
FeedIdle ==
    /\ doc = <<>>
    /\ content = None
    /\ url = <<>>
    /\ api = <<>>
    /\ feed = {}
    /\ pc = "codec"
    /\ lines = <<>>
    /\ i = 0
    /\ entry = None
    /\ stack = <<>>
    /\ raised = NoException
    /\ emitted = <<>>
    /\ readback = <<>>

\* the module as its import leaves it: _setup_escapes has run on _ESCAPES
TextImported ==
    /\ escapes = _ESCAPES
    /\ built = _setup_escapes(_ESCAPES)

InitCodec ==
    /\ text0 \in TextsUpTo(MaxLen)
    /\ arg = text0
    /\ ret = text0
    /\ calls = <<>>
    /\ TextImported
    /\ FeedIdle

\* an earlier call left by an exception: the caller's chain has ended
CodecFailed == calls # <<>> /\ calls[Len(calls)] = "KeyError"

\* ret = escape(text=ret)
CallEscape ==
    /\ Len(calls) < MaxCalls
    /\ ~ CodecFailed
    /\ arg' = ret
    /\ IF escape_raises(ret)
       THEN /\ ret' = ret
            /\ calls' = Append(calls, "KeyError")
       ELSE /\ ret' = escape(ret)
            /\ calls' = Append(calls, "escape")
    /\ UNCHANGED <<text0, escapes, built, feedVars>>

\* ret = unescape(text=ret)
CallUnescape ==
    /\ Len(calls) < MaxCalls
    /\ ~ CodecFailed
    /\ arg' = ret
    /\ IF unescape_raises(ret)
       THEN /\ ret' = ret
            /\ calls' = Append(calls, "KeyError")
       ELSE /\ ret' = unescape(ret)
            /\ calls' = Append(calls, "unescape")
    /\ UNCHANGED <<text0, escapes, built, feedVars>>

NextCodec == CallEscape \/ CallUnescape

SpecCodec == InitCodec /\ [][NextCodec]_vars

(* _setup_escapes run on every escape table of one or two characters with  *)
(* up to MaxSpellings spellings each                                        *)

\* the characters a table is written for
TableKeys == {NL, ";"}

\* the spellings a table lists: two well-formed ones, one that is too short,
\* one that is too long and one that does not begin with a backslash
Spellings == {<<BS, "n">>, <<BS, "N">>, <<BS>>, <<BS, "n", "n">>, <<"a", "n">>}

SpellingLists == UNION {[1..n -> Spellings] : n \in 0..MaxSpellings}

\* a dict holds each key once; its items are in the order they were written
Tables ==
    {<<<<key, values>>>> : key \in TableKeys, values \in SpellingLists}
        \cup UNION {{<<<<k1, v1>>, <<k2, v2>>>> :
                        k2 \in TableKeys \ {k1},
                        v1 \in SpellingLists, v2 \in SpellingLists} :
                    k1 \in TableKeys}

InitSetup ==
    /\ escapes \in Tables
    /\ built = None
    /\ text0 = <<>>
    /\ arg = <<>>
    /\ ret = <<>>
    /\ calls = <<>>
    /\ FeedIdle

\* _setup_escapes(), at the import of the module
SetupEscapes ==
    /\ built = None
    /\ built' = _setup_escapes(escapes)
    /\ UNCHANGED <<text0, arg, ret, calls, escapes, feedVars>>

NextSetup == SetupEscapes

SpecSetup == InitSetup /\ [][NextSetup]_vars

-----------------------------------------------------------------------------
(* feed.py: Feed, a set of entries, and Feed.process *)

CRLF == "\r\n"

RECURSIVE split_from(_, _, _)
split_from(string, sep, cur) ==
    IF string = <<>> THEN <<cur>>
    ELSE IF string[1] = sep
    THEN <<cur>> \o split_from(Tail(string), sep, <<>>)
    ELSE split_from(Tail(string), sep, Append(cur, string[1]))

\* string.split(sep), sep one token: the empty string gives one empty line
split(string, sep) == split_from(string, sep, <<>>)

\* string.split(sep, 1)[1] for a string that holds sep: what follows the
\* first sep
split_1_1(string, sep) ==
    LET first == CHOOSE k \in 1..Len(string) :
                     /\ string[k] = sep
                     /\ \A j \in 1..(k - 1) : string[j] # sep
    IN  SubSeq(string, first + 1, Len(string))

\* _entry.Entry(type=..., content=...): a new object; id, the number of the
\* call that made it and the index of its BEGIN line, tells apart objects
\* that hold the same values (a set keeps both)
Entry(type, body, id) == [type |-> type, content |-> body, id |-> id]

\* bool(entry) of "if entry:": None is false, an Entry object is true
truth(object) == object # None

ValueError(message, line, type, stk) ==
    [exc |-> "ValueError", message |-> message, line |-> line,
     type |-> type, stack |-> stk]

AttributeError == [exc |-> "AttributeError"]

\* len(None)
TypeError == [exc |-> "TypeError"]

\* raise ValueError(content_type)
ContentTypeError(content_type) ==
    [exc |-> "ValueError", message |-> content_type]

\* a slip: every BEGIN inside the root opens an entry
opens_entry_nested(stk) == Len(stk) >= 2

\* a slip: the root block opens an entry
opens_entry_root(stk) == Len(stk) = 1

\* "if len(stack) == 2" after the push of a BEGIN line
opens_entry(stk) == Len(stk) = 2

\* a slip: "_type not in stack" instead of the comparison with the top
unmatched_anywhere(stk, type) ==
    \A k \in 1..Len(stk) : stk[k] # type

\* "if not stack or _type != stack[-1]" of an END line
unmatched(stk, type) ==
    \/ stk = <<>>
    \/ type # stk[Len(stk)]

\* a slip: the entry is closed when the root is, not when the entry's block is
closes_entry_root(stk) == Len(stk) = 0

\* a slip: every END inside the root closes the entry
closes_entry_any(stk) == Len(stk) >= 1

\* "if len(stack) == 1" after the pop of an END line
closes_entry(stk) == Len(stk) = 1

\* a slip: the set is cleared before the entry is added
add_replacing(set, object) == {object}

\* a slip: entries that hold the same values count as one element
add_by_value(set, object) ==
    IF \E x \in set : x.type = object.type /\ x.content = object.content
    THEN set
    ELSE set \cup {object}

\* self.add(entry): set.add
add(set, object) == set \cup {object}

\* a slip: fetch retrieves the document whether or not content is set
needs_fetch_always(value, force) == TRUE

\* "if self.content is None or force"
needs_fetch(value, force) == value = None \/ force

\* Feed(url=..., content=...): an empty set with the content given, a
\* string or None
FeedInit(value) ==
    /\ content = value
    /\ api = <<>>
    /\ feed = {}
    /\ pc = "constructed"
    /\ lines = <<>>
    /\ i = 0
    /\ entry = None
    /\ stack = <<>>
    /\ raised = NoException
    /\ emitted = <<>>
    /\ readback = <<>>

\* process on a content that is a string, up to the first line of the loop
process_enter(string) ==
    /\ entry' = None
    /\ stack' = <<>>
    /\ lines' = split(string, CRLF)
    /\ i' = 0
    /\ pc' = "process"

\* f.process(), the one call made on a Feed constructed with its content
ProcessCall ==
    /\ pc = "constructed"
    /\ api' = Append(api, "process")
    /\ process_enter(content.str)
    /\ UNCHANGED <<doc, content, feed, raised, emitted, readback, url,
                   codecVars>>

\* one turn of the loop of process, on line i
ProcessLine ==
    /\ pc = "process"
    /\ i < Len(lines)
    /\ LET line      == lines[i + 1]
           is_begin  == startswith(line, <<"BEGIN", ":">>)
           pushed    == IF is_begin
                        THEN Append(stack, split_1_1(line, ":"))
                        ELSE stack
           opens     == is_begin /\ opens_entry(pushed)
           double    == opens /\ truth(entry)
           opened    == IF opens
                        THEN Entry(split_1_1(line, ":"), <<>>,
                                   <<Len(api), i>>)
                        ELSE entry
           appended  == IF truth(opened)
                        THEN [opened EXCEPT !.content = Append(@, line)]
                        ELSE opened
           is_end    == startswith(line, <<"END", ":">>)
           mismatch  == is_end /\ unmatched(pushed, split_1_1(line, ":"))
           popped    == IF is_end /\ ~ mismatch
                        THEN SubSeq(pushed, 1, Len(pushed) - 1)
                        ELSE pushed
           closes    == is_end /\ ~ mismatch /\ closes_entry(popped)
           closed    == [appended EXCEPT
                            !.content = join(<<CRLF>>, Append(@, <<>>))]
       IN  IF double
           THEN /\ raised' = ValueError("double entry", i, <<>>, pushed)
                /\ pc' = "raised"
                /\ stack' = pushed
                /\ UNCHANGED <<entry, feed, emitted, i>>
           ELSE IF mismatch
           THEN /\ raised' = ValueError("closing", i,
                                        split_1_1(line, ":"), pushed)
                /\ pc' = "raised"
                /\ stack' = pushed
                /\ entry' = appended
                /\ UNCHANGED <<feed, emitted, i>>
           ELSE IF closes /\ appended = None
           THEN /\ raised' = AttributeError
                /\ pc' = "raised"
                /\ stack' = popped
                /\ entry' = appended
                /\ UNCHANGED <<feed, emitted, i>>
           ELSE IF closes
           THEN /\ feed' = add(feed, closed)
                /\ emitted' = Append(emitted, closed)
                /\ entry' = None
                /\ stack' = popped
                /\ i' = i + 1
                /\ UNCHANGED <<raised, pc>>
           ELSE /\ entry' = appended
                /\ stack' = popped
                /\ i' = i + 1
                /\ UNCHANGED <<feed, emitted, raised, pc>>
    /\ UNCHANGED <<doc, content, lines, readback, url, api, codecVars>>

\* the loop is over: process returns
ProcessReturn ==
    /\ pc = "process"
    /\ i = Len(lines)
    /\ pc' = "returned"
    /\ UNCHANGED <<doc, content, feed, lines, i, entry, stack, raised,
                   emitted, readback, url, api, codecVars>>

\* the sequences that hold each element of the set once
Orders(set) ==
    {order \in [1..Cardinality(set) -> set] :
        \A j, k \in 1..Cardinality(set) : order[j] = order[k] => j = k}

\* "for event in f": Feed is a set, which gives its elements in an order of
\* its own (by hash; an Entry hashes by identity)
Iterate ==
    /\ pc \in {"returned", "raised"}
    /\ readback = <<>>
    /\ feed # {}
    /\ readback' \in Orders(feed)
    /\ UNCHANGED <<doc, content, feed, pc, lines, i, entry, stack, raised,
                   emitted, url, api, codecVars>>

(* The Feed run on every document of up to MaxLines lines *)

\* the lines a document is made of
Types == {<<"VCALENDAR">>, <<"VEVENT">>}

DocLines ==
    {<<"BEGIN", ":">> \o t : t \in Types}
        \cup {<<"END", ":">> \o t : t \in Types}
        \cup {<<"UID", ":", "1">>, <<>>}

Docs == UNION {[1..n -> DocLines] : n \in 1..MaxLines}

\* the text of a document: its lines with CRLF between them
DocText(d) ==
    Concat([k \in 1..Len(d) |-> IF k = 1 THEN d[k] ELSE <<CRLF>> \o d[k]])

\* the codec variables as they are while only the Feed runs
CodecIdle ==
    /\ text0 = <<>>
    /\ arg = <<>>
    /\ ret = <<>>
    /\ calls = <<>>
    /\ TextImported

Init ==
    /\ doc \in Docs
    /\ url = doc
    /\ FeedInit(str(DocText(doc)))
    /\ CodecIdle

Next == ProcessCall \/ ProcessLine \/ ProcessReturn \/ Iterate

Spec == Init /\ [][Next]_vars

(* A Feed, constructed with or without content, on which up to MaxApiCalls *)
(* calls of fetch and process are made, one after the other                 *)

\* the lines of the document the URL serves
FetchLines ==
    {<<"BEGIN", ":">> \o t : t \in Types}
        \cup {<<"END", ":">> \o t : t \in Types}

FetchDocs == UNION {[1..n -> FetchLines] : n \in 1..MaxFetchLines}

\* the document given to the constructor as content: a calendar of one event
GivenDoc ==
    <<<<"BEGIN", ":", "VCALENDAR">>, <<"BEGIN", ":", "VEVENT">>,
      <<"END", ":", "VEVENT">>, <<"END", ":", "VCALENDAR">>>>

\* the Content-type headers the server answers with
ContentTypes == {"text/calendar", "text/html"}

InitFetch ==
    /\ url \in FetchDocs
    /\ \E given \in {None, str(DocText(GivenDoc))} : FeedInit(given)
    /\ doc = IF content = None THEN <<>> ELSE GivenDoc
    /\ pc = "constructed"
    /\ lines = <<>>
    /\ i = 0
    /\ entry = None
    /\ stack = <<>>
    /\ raised = NoException
    /\ emitted = <<>>
    /\ readback = <<>>
    /\ CodecIdle

\* no call is running on the Feed and the caller has calls left
Callable ==
    /\ pc \in {"constructed", "returned", "raised"}
    /\ Len(api) < MaxApiCalls

\* f.fetch(force): fetch, _fetch and process up to the first line of its loop
Fetch ==
    /\ Callable
    /\ \E force \in BOOLEAN, content_type \in ContentTypes :
          /\ api' = Append(api, IF force THEN "fetch(force=True)" ELSE "fetch")
          /\ IF ~ needs_fetch(content, force)
             THEN /\ pc' = "returned"
                  /\ raised' = NoException
                  /\ UNCHANGED <<doc, content, lines, i, entry, stack>>
             ELSE IF content_type # "text/calendar"
             THEN /\ raised' = ContentTypeError(content_type)
                  /\ pc' = "raised"
                  /\ UNCHANGED <<doc, content, lines, i, entry, stack>>
             ELSE /\ content' = str(DocText(url))
                  /\ doc' = url
                  /\ raised' = NoException
                  /\ process_enter(DocText(url))
    /\ UNCHANGED <<feed, emitted, readback, url, codecVars>>

\* f.process(), called by the user of the Feed
Process ==
    /\ Callable
    /\ api' = Append(api, "process")
    /\ IF content = None
       THEN /\ raised' = TypeError
            /\ pc' = "raised"
            /\ UNCHANGED <<lines, i, entry, stack>>
       ELSE /\ raised' = NoException
            /\ process_enter(content.str)
    /\ UNCHANGED <<doc, content, feed, emitted, readback, url, codecVars>>

NextFetch == Fetch \/ Process \/ ProcessLine \/ ProcessReturn

SpecFetch == InitFetch /\ [][NextFetch]_vars

-----------------------------------------------------------------------------
(* Claims about Feed.process, checked under Spec.  They are stated on doc,   *)
(* the lines the document was written from, with their own reading of a line. *)

BeginLine(t) == <<"BEGIN", ":">> \o t
EndLine(t) == <<"END", ":">> \o t
IsBeginLine(l) == \E t \in Types : l = BeginLine(t)
IsEndLine(l) == \E t \in Types : l = EndLine(t)
TypeOf(l) == CHOOSE t \in Types : l = BeginLine(t) \/ l = EndLine(t)

\* the nesting depth after the first k lines of d: BEGIN lines less END lines
Depth(d, k) ==
    Cardinality({j \in 1..k : IsBeginLine(d[j])})
        - Cardinality({j \in 1..k : IsEndLine(d[j])})

RECURSIVE Open(_, _)
\* the blocks of d left open after its first k lines, outermost first, and
\* whether every END line among them closed the innermost open block
Open(d, k) ==
    IF k = 0 THEN [ok |-> TRUE, types |-> <<>>]
    ELSE LET before == Open(d, k - 1)
             l      == d[k]
         IN  IF ~ before.ok THEN before
             ELSE IF IsBeginLine(l)
             THEN [ok |-> TRUE, types |-> Append(before.types, TypeOf(l))]
             ELSE IF IsEndLine(l)
             THEN IF /\ before.types # <<>>
                     /\ before.types[Len(before.types)] = TypeOf(l)
                  THEN [ok |-> TRUE,
                        types |-> SubSeq(before.types, 1,
                                         Len(before.types) - 1)]
                  ELSE [ok |-> FALSE, types |-> before.types]
             ELSE before

\* every BEGIN is closed by an END of the same type, in proper nesting
WellFormed(d) ==
    /\ Open(d, Len(d)).ok
    /\ Open(d, Len(d)).types = <<>>

\* the BEGIN lines of d that bring the depth to exactly 2
EntryBegins(d) ==
    {b \in 1..Len(d) : IsBeginLine(d[b]) /\ Depth(d, b) = 2}

\* the text of lines b..k of d, each followed by CRLF
BlockText(d, b, k) ==
    Concat([j \in 1..(k - b + 1) |-> d[b + j - 1] \o <<CRLF>>])

\* e is the entry of the block of d that line b opens and line k closes
IsEntryOfBlock(e, d, b, k) ==
    /\ d[b] = BeginLine(e.type)
    /\ Depth(d, b - 1) = 1
    /\ IsEndLine(d[k])
    /\ Depth(d, k) = 1
    /\ \A j \in b..(k - 1) : Depth(d, j) >= 2
    /\ e.content = BlockText(d, b, k)
    /\ e.id = <<1, b - 1>>

\* C2: every entry emitted has the type of the BEGIN line that raised the
\* depth from 1 to 2, and its content is the lines from that BEGIN line
\* through the END line that returns the depth to 1, each followed by CRLF
\* (the CRLF-join of the lines and one trailing empty line); no line at
\* depth 0 or 1 is in it.
C2_EntryIsBlock ==
    \A e \in feed :
        \E b \in 1..i : \E k \in (b + 1)..i : IsEntryOfBlock(e, doc, b, k)

\* a calendar with a property at the root and one event with a nested block
C2_Witness ==
    /\ pc = "returned"
    /\ doc = <<BeginLine(<<"VCALENDAR">>), <<"UID", ":", "1">>,
               BeginLine(<<"VEVENT">>), <<"UID", ":", "1">>,
               EndLine(<<"VEVENT">>), EndLine(<<"VCALENDAR">>)>>
    /\ feed = {[type |-> <<"VEVENT">>,
                content |-> <<"BEGIN", ":", "VEVENT", CRLF,
                              "UID", ":", "1", CRLF,
                              "END", ":", "VEVENT", CRLF>>,
                id |-> <<1, 2>>]}

\* C3: for every well-formed document, once process has returned, the
\* number of entries emitted is the number of BEGIN lines that bring the
\* depth to exactly 2.
C3_EntryCount ==
    (pc = "returned" /\ WellFormed(doc)) =>
        /\ Len(emitted) = Cardinality(EntryBegins(doc))
        /\ Cardinality(feed) = Cardinality(EntryBegins(doc))

\* a well-formed document with two events that hold the same lines
C3_Witness ==
    /\ pc = "returned"
    /\ WellFormed(doc)
    /\ Cardinality(EntryBegins(doc)) = 2
    /\ Cardinality(feed) = 2
    /\ emitted[1].content = emitted[2].content

\* the entries of order are in the order of their BEGIN lines
InDocumentOrder(order) ==
    \A j, k \in 1..Len(order) :
        j < k => \/ order[j].id[1] < order[k].id[1]
                 \/ /\ order[j].id[1] = order[k].id[1]
                    /\ order[j].id[2] < order[k].id[2]

\* C4 as claimed: for a well-formed document with several depth-2 blocks,
\* the entries read back from the Feed after process() come in the order of
\* their BEGIN lines.
C4_ReadbackInOrder ==
    (pc = "returned" /\ WellFormed(doc) /\ readback # <<>>) =>
        InDocumentOrder(readback)

\* C4 as amended: for a well-formed document, process adds the entries to
\* the Feed in the order of their BEGIN lines; what is read back from the
\* Feed, a set, is the same entries, each once, in an order of the set's own.
C4_AddedInOrder ==
    (pc = "returned" /\ WellFormed(doc)) =>
        /\ InDocumentOrder(emitted)
        /\ readback # <<>> =>
              /\ Len(readback) = Len(emitted)
              /\ {readback[k] : k \in 1..Len(readback)}
                     = {emitted[k] : k \in 1..Len(emitted)}

\* two events of a well-formed document have been read back, last first
C4_Witness ==
    /\ pc = "returned"
    /\ WellFormed(doc)
    /\ Len(emitted) = 2
    /\ readback = <<emitted[2], emitted[1]>>

\* the message of the ValueError that left process, "" if none did
Message(exception) ==
    IF exception.exc = "ValueError" THEN exception.message ELSE ""

\* process is about to read an END line that does not close the innermost
\* open block
AtUnmatchedClose ==
    /\ pc = "process"
    /\ i < Len(doc)
    /\ IsEndLine(doc[i + 1])
    /\ \/ stack = <<>>
       \/ stack[Len(stack)] # TypeOf(doc[i + 1])

\* C5: an END line read while the stack is empty or its top differs fails at
\* once with an error that names the line's index; the stack is not popped,
\* no later line is processed and no entry is emitted at or after that line.
C5_UnmatchedClose ==
    [][/\ AtUnmatchedClose =>
            /\ pc' = "raised"
            /\ Message(raised') = "closing"
            /\ raised'.line = i
            /\ stack' = stack
            /\ i' = i
            /\ feed' = feed
            /\ emitted' = emitted
       /\ pc = "raised" =>
            /\ pc' = "raised"
            /\ UNCHANGED <<i, stack, entry, feed, emitted, raised>>]_vars

\* END:VCALENDAR was read while the innermost open block was a VEVENT, after
\* an earlier event had been emitted
C5_Witness ==
    /\ pc = "raised"
    /\ Message(raised) = "closing"
    /\ raised.line = i
    /\ raised.type = <<"VCALENDAR">>
    /\ stack = <<<<"VCALENDAR">>, <<"VEVENT">>>>
    /\ Len(emitted) = 1

\* process is about to read a BEGIN line while a depth-2 block is open
AtNestedBegin ==
    /\ pc = "process"
    /\ i < Len(doc)
    /\ IsBeginLine(doc[i + 1])
    /\ Len(stack) >= 2

\* C6 as claimed: a second BEGIN line after a depth-2 BEGIN whose END has
\* not yet been read makes process fail with the 'double entry' error.
C6_DoubleEntryRaised ==
    [][AtNestedBegin =>
          /\ pc' = "raised"
          /\ Message(raised') = "double entry"]_vars

\* C6 as amended: a BEGIN line read while a depth-2 block is open does not
\* fail; it is pushed as a nested block and its line is appended to the
\* pending entry.  process never raises the 'double entry' error.
C6_NestedBeginPushed ==
    [][/\ AtNestedBegin =>
            /\ pc' = "process"
            /\ raised' = NoException
            /\ stack' = Append(stack, TypeOf(doc[i + 1]))
            /\ entry # None
            /\ entry' = [entry EXCEPT !.content = Append(@, doc[i + 1])]
            /\ feed' = feed
       /\ Message(raised') # "double entry"]_vars

\* a block has been opened inside an event and the scan goes on
C6_Witness ==
    /\ pc = "process"
    /\ stack = <<<<"VCALENDAR">>, <<"VEVENT">>, <<"VEVENT">>>>
    /\ entry # None
    /\ entry.content = <<BeginLine(<<"VEVENT">>), BeginLine(<<"VEVENT">>)>>
    /\ raised = NoException

\* C7 as claimed: process returns normally only with an empty stack and no
\* pending entry; a document that ends with a block open is an error.
C7_UnterminatedIsError ==
    pc = "returned" => (stack = <<>> /\ entry = None)

-----------------------------------------------------------------------------
(* Claims about the codec, checked under SpecCodec *)

LastCall == IF calls = <<>> THEN "none" ELSE calls[Len(calls)]

\* C1: round trip.  For every text x, unescape(escape(x)) = x: once the
\* caller has applied escape and then unescape, the value is the starting text.
C1_RoundTrip ==
    calls = <<"escape", "unescape">> => ret = text0

\* a text with a backslash before the letter n, a newline and the letter N
\* has made the round trip
C1_Witness ==
    /\ calls = <<"escape", "unescape">>
    /\ text0 = <<BS, "n", NL, "N">>
    /\ arg = <<BS, BS, "n", BS, "n", "N">>
    /\ ret = text0

\* the characters of the escape table
TableChars == {BS, NL, ";", ","}

RECURSIVE IsCanonical(_)
\* y is a concatenation of canonical spellings and of characters that are
\* not in the escape table
IsCanonical(y) ==
    \/ y = <<>>
    \/ /\ y[1] \notin TableChars
       /\ IsCanonical(Tail(y))
    \/ /\ Len(y) >= 2
       /\ y[1] = BS
       /\ y[2] \in {BS, "n", ";", ","}
       /\ IsCanonical(SubSeq(y, 3, Len(y)))

\* C8: reverse round trip.  For every text y that is a concatenation of
\* canonical spellings and characters outside the escape table,
\* escape(unescape(y)) = y.
C8_ReverseRoundTrip ==
    (calls = <<"unescape", "escape">> /\ IsCanonical(text0)) => ret = text0

\* the letter N, an escaped backslash and the letter n: the n after the
\* escaped backslash stays a letter
C8_Witness ==
    /\ calls = <<"unescape", "escape">>
    /\ text0 = <<"N", BS, BS, "n">>
    /\ arg = <<"N", BS, "n">>
    /\ ret = text0

\* the canonical spelling of each character of the table, and every other
\* character as it is
CanonicalSpelling(c) ==
    CASE c = BS  -> <<BS, BS>>
      [] c = NL  -> <<BS, "n">>
      [] c = ";" -> <<BS, ";">>
      [] c = "," -> <<BS, ",">>
      [] OTHER   -> <<c>>

\* C9: escape(text) is the character-by-character map: each backslash,
\* newline, semicolon and comma becomes its canonical two-character spelling,
\* every other character is copied, in order, in a single pass.
C9_EscapeIsCharMap ==
    LastCall = "escape" =>
        ret = Concat([k \in 1..Len(arg) |-> CanonicalSpelling(arg[k])])

\* a backslash, a newline, the letter n and a semicolon have been escaped
C9_Witness ==
    /\ LastCall = "escape"
    /\ arg = <<BS, NL, "n", ";">>
    /\ ret = <<BS, BS, BS, "n", "n", BS, ";">>

\* the source character of the spelling that ends in c
SourceChar(c) ==
    CASE c = BS          -> BS
      [] c \in {"n", "N"} -> NL
      [] c = ";"         -> ";"
      [] c = ","         -> ","

RECURSIVE UnescapeLeftToRight(_)
\* the left-to-right scan C10 describes
UnescapeLeftToRight(t) ==
    IF t = <<>> THEN <<>>
    ELSE IF t[1] = BS /\ Len(t) >= 2 /\ t[2] \in {BS, "n", "N", ";", ","}
    THEN <<SourceChar(t[2])>> \o UnescapeLeftToRight(SubSeq(t, 3, Len(t)))
    ELSE <<t[1]>> \o UnescapeLeftToRight(Tail(t))

\* C10: unescape(text) scans left to right without overlap: a backslash
\* followed by backslash, n, N, semicolon or comma is consumed with that
\* character and replaced by the source character; any other backslash and
\* every other character is copied.
C10_UnescapeScan ==
    LastCall = "unescape" => ret = UnescapeLeftToRight(arg)

\* an escaped backslash, then the letter n (no overlap), then a backslash
\* before another character, left as it is
C10_Witness ==
    /\ LastCall = "unescape"
    /\ arg = <<BS, BS, "n", BS>>
    /\ ret = <<BS, "n", BS>>

\* C11: escape and unescape are total: on every text, the empty text, a text
\* of escape spellings and a text that ends in an unmatched backslash
\* included, a call returns a text and no call leaves by an exception; every
\* match of either pattern is a key of the table its replacer looks it up in.
C11_Total ==
    /\ \A k \in 1..Len(calls) : calls[k] \in {"escape", "unescape"}
    /\ \A k \in 1..Len(ret) : ret[k] \in Chars
    /\ ~ escape_raises(ret)
    /\ ~ unescape_raises(ret)

\* unescape has returned from a text of a spelling, a bare semicolon and an
\* unmatched backslash at its end
C11_Witness ==
    /\ calls = <<"unescape">>
    /\ arg = <<BS, "N", ";", BS>>
    /\ ret = <<NL, ";", BS>>

RECURSIVE HasAlias(_)
\* y holds the spelling backslash-N where the decoder reads a spelling: read
\* left to right, a backslash before a backslash, n, semicolon or comma
\* escapes that character, and the backslash of backslash-N is not one that
\* an earlier backslash escaped
HasAlias(y) ==
    /\ Len(y) >= 2
    /\ IF y[1] = BS /\ y[2] = "N" THEN TRUE
       ELSE IF y[1] = BS /\ y[2] \in {BS, "n", ";", ","}
       THEN HasAlias(SubSeq(y, 3, Len(y)))
       ELSE HasAlias(Tail(y))

\* C13: decode aliases.  unescape of backslash-n and of backslash-N are both
\* the one newline character, escape of a newline is backslash-n, and so for
\* every y that holds the spelling backslash-N (its backslash not escaped by
\* a backslash before it) escape(unescape(y)) differs from y.
C13_DecodeAliases ==
    /\ (LastCall = "unescape" /\ arg \in {<<BS, "n">>, <<BS, "N">>})
           => ret = <<NL>>
    /\ (LastCall = "escape" /\ arg = <<NL>>) => ret = <<BS, "n">>
    /\ (calls = <<"unescape", "escape">> /\ HasAlias(text0))
           => /\ ret # text0
              /\ \E k \in 1..Len(arg) : arg[k] = NL

\* an escaped backslash, then backslash-N: the alias was decoded to a
\* newline and encoded back as backslash-n
C13_Witness ==
    /\ calls = <<"unescape", "escape">>
    /\ text0 = <<BS, BS, BS, "N">>
    /\ arg = <<BS, NL>>
    /\ ret = <<BS, BS, BS, "n">>

RECURSIVE BackslashesBefore(_, _)
\* the number of backslashes that stand in an unbroken run just before
\* position k of t
BackslashesBefore(t, k) ==
    IF k = 1 THEN 0
    ELSE IF t[k - 1] # BS THEN 0
    ELSE 1 + BackslashesBefore(t, k - 1)

\* C18: the output of escape is safe for RFC 5545: it holds no newline, every
\* semicolon and every comma in it is the second character of an escape pair
\* (the backslash just before it is one escape wrote for it, not the second
\* half of an escaped backslash), and its backslashes pair up from left to
\* right: none is left unpaired before another character or at the end.
C18_EscapeOutputSafe ==
    LastCall = "escape" =>
        /\ \A k \in 1..Len(ret) : ret[k] # NL
        /\ \A k \in 1..Len(ret) :
               ret[k] \in {";", ","} => BackslashesBefore(ret, k) % 2 = 1
        /\ \A k \in 1..Len(ret) :
               ret[k] \notin {BS, "n", ";", ","}
                   => BackslashesBefore(ret, k) % 2 = 0
        /\ BackslashesBefore(ret, Len(ret) + 1) % 2 = 0

\* a backslash, a semicolon, a newline and a comma have been escaped: the
\* semicolon stands after three backslashes
C18_Witness ==
    /\ LastCall = "escape"
    /\ arg = <<BS, ";", NL, ",">>
    /\ ret = <<BS, BS, BS, ";", BS, "n", BS, ",">>

\* process has read line i + 1 of the document without raising
LineProcessed ==
    /\ pc = "process"
    /\ pc' = "process"
    /\ i' = i + 1

\* C15: the pending entry.  After every line process reads without error a
\* pending entry exists if and only if the stack is at least 2 deep (and
\* there is none before the first line); it is created exactly by a BEGIN
\* line that takes the depth from 1 to 2 and cleared exactly by an END line
\* that takes the depth from 2 to 1, so the END line that finalizes always
\* finds it.
C15_PendingEntry ==
    [][/\ (pc = "process" /\ i = 0) => (entry = None /\ stack = <<>>)
       /\ LineProcessed =>
            /\ (entry' # None) <=> (Len(stack') >= 2)
            /\ (entry = None /\ entry' # None)
                   <=> /\ IsBeginLine(doc[i + 1])
                       /\ Len(stack) = 1
                       /\ Len(stack') = 2
            /\ (entry # None /\ entry' = None)
                   <=> /\ IsEndLine(doc[i + 1])
                       /\ Len(stack) = 2
                       /\ Len(stack') = 1
       /\ raised' # AttributeError]_vars

\* an event has been closed and a second one opened, with a block nested in it
C15_Witness ==
    /\ pc = "process"
    /\ i = 5
    /\ Cardinality(feed) = 1
    /\ entry # None
    /\ entry.type = <<"VEVENT">>
    /\ stack = <<<<"VCALENDAR">>, <<"VEVENT">>, <<"VCALENDAR">>>>

\* C16: the stack.  After every line process reads without error the stack
\* is, bottom to top, the types of the BEGIN lines read so far that no
\* matching END line has closed, in document order, and its length is the
\* nesting depth; it is empty before the first line; a BEGIN line pushes its
\* type, an END line pops the top, which is its own type, and every other
\* line leaves the stack as it is.
C16_Stack ==
    [][/\ (pc = "process" /\ i = 0) => stack = <<>>
       /\ LineProcessed =>
            /\ Open(doc, i').ok
            /\ stack' = Open(doc, i').types
            /\ Len(stack') = Depth(doc, i')
            /\ IsBeginLine(doc[i']) => stack' = Append(stack, TypeOf(doc[i']))
            /\ IsEndLine(doc[i']) => stack = Append(stack', TypeOf(doc[i']))
            /\ (~ IsBeginLine(doc[i']) /\ ~ IsEndLine(doc[i']))
                   => stack' = stack]_vars

\* three blocks were opened and the innermost closed, with a property and
\* an empty line read in between
C16_Witness ==
    /\ pc = "process"
    /\ i = 6
    /\ doc = <<BeginLine(<<"VCALENDAR">>), BeginLine(<<"VEVENT">>),
               <<"UID", ":", "1">>, BeginLine(<<"VCALENDAR">>), <<>>,
               EndLine(<<"VCALENDAR">>)>>
    /\ stack = <<<<"VCALENDAR">>, <<"VEVENT">>>>

\* the lines of body and one more line, each followed by CRLF
Finalized(body, line) ==
    Concat([j \in 1..(Len(body) + 1) |->
               Append(body, line)[j] \o <<CRLF>>])

\* C17: only blocks at depth 2 become entries.  A BEGIN line read at depth 2
\* or deeper, an END line read at depth 3 or deeper and every other line read
\* inside an entry is appended as it is to the pending entry and adds nothing
\* to the feed; the entry is emitted once, by the END line that takes the
\* depth from 2 to 1, with all those lines in it; a line read outside an
\* entry adds nothing to the feed.
C17_OnlyDepthTwo ==
    [][LineProcessed =>
         IF Len(stack) >= 2
         THEN IF IsEndLine(doc[i + 1]) /\ Len(stack) = 2
              THEN /\ entry' = None
                   /\ Len(emitted') = Len(emitted) + 1
                   /\ \E e \in feed' :
                          /\ e \notin feed
                          /\ feed' = feed \cup {e}
                          /\ e = emitted'[Len(emitted')]
                          /\ e.type = entry.type
                          /\ e.content = Finalized(entry.content, doc[i + 1])
              ELSE /\ feed' = feed
                   /\ emitted' = emitted
                   /\ entry' = [entry EXCEPT
                                   !.content = Append(@, doc[i + 1])]
         ELSE /\ feed' = feed
              /\ emitted' = emitted]_vars

\* an event that holds a nested block has been emitted, once, with the
\* lines of the nested block in it
C17_Witness ==
    /\ pc = "returned"
    /\ doc = <<BeginLine(<<"VCALENDAR">>), BeginLine(<<"VEVENT">>),
               BeginLine(<<"VCALENDAR">>), EndLine(<<"VCALENDAR">>),
               EndLine(<<"VEVENT">>), EndLine(<<"VCALENDAR">>)>>
    /\ Cardinality(feed) = 1
    /\ Len(emitted) = 1
    /\ emitted[1].type = <<"VEVENT">>
    /\ emitted[1].content = <<"BEGIN", ":", "VEVENT", CRLF,
                              "BEGIN", ":", "VCALENDAR", CRLF,
                              "END", ":", "VCALENDAR", CRLF,
                              "END", ":", "VEVENT", CRLF>>

\* escape of every text up to MaxOther
EscapeOf == [x \in TextsUpTo(MaxOther) |-> escape(x)]

\* C14 as the spec states it: escape is not injective, two different texts
\* have the same escape (a fact of the function, stated where no call has
\* been made yet).
C14_EscapeNotInjective ==
    calls = <<>> =>
        \E x1, x2 \in TextsUpTo(MaxOther) :
            x1 # x2 /\ EscapeOf[x1] = EscapeOf[x2]

\* C14, amended: escape is injective, no text has the escape of a different
\* text; the function that is not injective is unescape, which takes
\* backslash-n and backslash-N to the same newline.
C14_EscapeInjective ==
    /\ calls = <<"escape">> =>
           \A x \in TextsUpTo(MaxOther) : x # text0 => EscapeOf[x] # ret
    /\ (calls = <<"unescape">> /\ text0 = <<BS, "N">>)
           => ret = unescape(<<BS, "n">>)

\* a newline has been escaped: the letter n and the two characters
\* backslash-n, the texts nearest to its escape, have other escapes
C14_Witness ==
    /\ calls = <<"escape">>
    /\ text0 = <<NL>>
    /\ ret = <<BS, "n">>
    /\ EscapeOf[<<"n">>] = <<"n">>
    /\ EscapeOf[<<BS, "n">>] = <<BS, BS, "n">>

\* some spelling of t is not exactly two characters long
HasBadLength(t) ==
    \E k \in 1..Len(t) : \E j \in 1..Len(t[k][2]) : Len(t[k][2][j]) # 2

\* some spelling of t does not start with a backslash
HasNoBackslash(t) ==
    \E k \in 1..Len(t) : \E j \in 1..Len(t[k][2]) : t[k][2][j][1] # BS

\* some spelling of t is listed for two different characters
HasCollision(t) ==
    \E k1, k2 \in 1..Len(t) :
        /\ k1 # k2
        /\ \E j1 \in 1..Len(t[k1][2]) : \E j2 \in 1..Len(t[k2][2]) :
               t[k1][2][j1] = t[k2][2][j2]

\* C12: _setup_escapes fails for every table in which some spelling is not
\* exactly two characters long, or does not start with a backslash, or is
\* listed for two different characters; it succeeds only when none of the
\* three holds.
C12_SetupFails ==
    built # None =>
        ((built.exc # "None")
            <=> (HasBadLength(escapes) \/ HasNoBackslash(escapes)
                 \/ HasCollision(escapes)))

\* C19: fetch(force=False) retrieves and processes the document only when
\* content is None: the server is asked, and on a text/calendar answer the
\* content is set to the document and process runs on it.  When content is
\* set, by the constructor or by an earlier fetch, the call returns with
\* content and the entries as they were and process does not run; a Feed
\* constructed with content and then fetched holds no entries.
C19_FetchOnlyWhenNone ==
    [][api' = Append(api, "fetch") =>
         IF content = None
         THEN \/ /\ pc' = "process"
                 /\ content' = str(DocText(url))
                 /\ lines' = url
                 /\ i' = 0
              \/ /\ pc' = "raised"
                 /\ raised' = ContentTypeError("text/html")
                 /\ content' = None
         ELSE /\ pc' = "returned"
              /\ content' = content
              /\ feed' = feed
              /\ emitted' = emitted
              /\ UNCHANGED <<lines, i, entry, stack>>
              /\ (api = <<>>) => feed' = {}]_vars

\* a Feed constructed with the calendar of one event has been fetched, from
\* a URL that serves another calendar of one event: no line was read, the
\* content is the constructor's and the Feed is empty
C19_Witness ==
    /\ api = <<"fetch">>
    /\ pc = "returned"
    /\ content = str(DocText(GivenDoc))
    /\ url = <<BeginLine(<<"VEVENT">>), BeginLine(<<"VEVENT">>),
               EndLine(<<"VEVENT">>), EndLine(<<"VEVENT">>)>>
    /\ lines = <<>>
    /\ feed = {}

\* C20: process only adds to the Feed and never changes content.  No step
\* removes an entry: not the start of a later process run or of a forced
\* fetch, which leaves the set as it is, and not an error, after which the
\* entries emitted before it are still there; so over every sequence of
\* fetch and process calls the set of entries only grows.
C20_EntriesOnlyGrow ==
    [][/\ feed \subseteq feed'
       /\ (pc = "process" \/ api' = Append(api, "process"))
              => content' = content
       /\ (api' # api \/ pc' = "raised") => feed' = feed
       /\ (feed' # feed) => \E e \in feed' : /\ e \notin feed
                                             /\ feed' = feed \cup {e}]_vars

\* the URL serves an event followed by an END line that closes nothing; it
\* was fetched twice, the second time by force: each run added its entry
\* before it raised, and both entries are in the Feed
C20_Witness ==
    /\ api = <<"fetch", "fetch(force=True)">>
    /\ pc = "raised"
    /\ raised.exc = "ValueError"
    /\ Len(emitted) = 2
    /\ feed = {emitted[1], emitted[2]}
    /\ emitted[1].id = <<1, 1>>
    /\ emitted[2].id = <<2, 1>>
    /\ emitted[1].content = emitted[2].content

====
